---- MODULE Spec2Model ----
(***************************************************************************)
(* A model of cdnjs-add-cli: the interactive session of src/index.js (and  *)
(* of the earlier entry scripts kept in src/unnamed/part_000), the         *)
(* file-map matcher and the author normalizer.                             *)
(*                                                                         *)
(* A JavaScript string is a sequence of one-character strings; "" is <<>>. *)
(* Where a value's type is not fixed by its place (an object's field), it  *)
(* is tagged: Undefined, Str(s), ...                                       *)
(***************************************************************************)
EXTENDS Integers, Sequences, FiniteSets, TLC

\* ------------------------------------------------------------- bounds
MaxAuthors == 2

MaxJunkLen == 2

MaxGlobs == 3

MaxReplies == 4

\* ------------------------------------------------------ JavaScript values
Undefined == [t |-> "undefined"]

Str(s) == [t |-> "string", s |-> s]

Obj(o) == [t |-> "object", o |-> o]

\* !!x for the values the model uses: undefined, null and "" are falsy.
Truthy(v) ==
    CASE v.t = "undefined" -> FALSE
      [] v.t = "null" -> FALSE
      [] v.t = "string" -> v.s # <<>>
      [] OTHER -> TRUE

\* author.key : a missing property reads as undefined; a property of a string
\* primitive (author.email on "Jane") reads as undefined too.
Prop(v, k) ==
    IF v.t = "object" /\ k \in DOMAIN v.o THEN Str(v.o[k]) ELSE Undefined

\* ------------------------------------------------------- transformAuthors
NL == "\n"

\* `.` matches every character but a line terminator.
NoNL(s) == \A i \in 1..Len(s) : s[i] # NL

\* The text matched by / <.+>/ anchored at both ends of r.
IsAngle(r) ==
    /\ Len(r) >= 4
    /\ r[1] = " " /\ r[2] = "<" /\ r[Len(r)] = ">"
    /\ NoNL(r)

\* The text matched by / \(.+\)/ anchored at both ends of r.
IsParen(r) ==
    /\ Len(r) >= 4
    /\ r[1] = " " /\ r[2] = "(" /\ r[Len(r)] = ")"
    /\ NoNL(r)

Rest(s, k) == SubSeq(s, k + 1, Len(s))

\* Group 1 of /^.*?((?:FIRST)?)(?:SECOND)?$/ on s, as the backtracking matcher
\* finds it: the shortest prefix for .*?, then the optional group present with
\* the longest .+ first, then absent. No match (null) only when s holds a line
\* terminator the pattern cannot cross.
\* The segment a pattern captures ("<" for <.+>, "(" for \(.+\)) and the one
\* it lets follow.
First(open, r) == IF open = "<" THEN IsAngle(r) ELSE IsParen(r)

Second(open, r) == IF open = "<" THEN IsParen(r) ELSE IsAngle(r)

GroupLens(r, open) ==
    {m \in 4..Len(r) :
        /\ First(open, SubSeq(r, 1, m))
        /\ (Second(open, Rest(r, m)) \/ Rest(r, m) = <<>>)}

TailOk(r, open) ==
    \/ GroupLens(r, open) # {}
    \/ Second(open, r)
    \/ r = <<>>

Max(S) == CHOOSE m \in S : \A n \in S : n <= m

Min(S) == CHOOSE m \in S : \A n \in S : m <= n

MatchTrailing(s, open) ==
    LET ks == {k \in 0..Len(s) :
                  NoNL(SubSeq(s, 1, k)) /\ TailOk(Rest(s, k), open)}
    IN  IF ks = {} THEN [t |-> "null"]
        ELSE LET r == Rest(s, Min(ks))
                 ms == GroupLens(r, open)
             IN  [t |-> "match",
                  g |-> IF ms = {} THEN <<>> ELSE SubSeq(r, 1, Max(ms))]

\* name.match(/^.*?((?: <.+>)?)(?: \(.+\))?$/)
MatchEmail(s) == MatchTrailing(s, "<")

\* name.match(/^.*?((?: \(.+\))?)(?: <.+>)?$/)
MatchUrl(s) == MatchTrailing(s, "(")

IsSegment(r) == IsParen(r) \/ IsAngle(r)

\* name.match(/^(.*?)(?:(?: \(.+\))|(?: <.+>)){0,2}$/): group 1 is the shortest
\* prefix after which zero, one or two segments reach the end.
MatchName(s) ==
    LET ok(r) == \/ r = <<>>
                 \/ IsSegment(r)
                 \/ \E m \in 4..Len(r) :
                        IsSegment(SubSeq(r, 1, m)) /\ IsSegment(Rest(r, m))
        ks == {k \in 0..Len(s) : NoNL(SubSeq(s, 1, k)) /\ ok(Rest(s, k))}
    IN  IF ks = {} THEN [t |-> "null"]
        ELSE [t |-> "match", g |-> SubSeq(s, 1, Min(ks))]

\* Mutant: only the opening " <" or " (" is cut off.
StripOpening(g) == SubSeq(g, 3, Len(g))

\* g.slice(2).slice(0, -1)
Strip(g) ==
    LET a == SubSeq(g, 3, Len(g))
    IN  SubSeq(a, 1, Len(a) - 1)

Thrown == [t |-> "throw"]

\* One author of the map callback: Thrown for a TypeError (match on undefined,
\* or [1] of null), else the cleaned object {name?, email?, url?} as a function
\* from its remaining keys to strings.
TransformAuthor(author) ==
    LET name0 == IF author.t = "string" THEN author ELSE Prop(author, "name")
        emailP == Prop(author, "email")
        urlP == IF Truthy(Prop(author, "url")) THEN Prop(author, "url")
                ELSE Prop(author, "homepage")
        needE == ~Truthy(emailP)
        needU == ~Truthy(urlP)
    IN  IF name0.t # "string" THEN Thrown
        ELSE LET e == MatchEmail(name0.s)
                 u == MatchUrl(name0.s)
                 n == MatchName(name0.s)
             IN  IF (needE /\ e.t = "null") \/ (needU /\ u.t = "null") \/ n.t = "null"
                 THEN Thrown
                 ELSE LET email == IF needE THEN Strip(e.g) ELSE emailP.s
                          url == IF needU THEN Strip(u.g) ELSE urlP.s
                          data == [k \in {"name", "email", "url"} |->
                                      CASE k = "name" -> n.g
                                        [] k = "email" -> email
                                        [] OTHER -> url]
                          keep == {k \in DOMAIN data : data[k] # <<>>}
                      IN  [t |-> "author", o |-> [k \in keep |-> data[k]]]

\* authors.filter(x => !!x).map(...): an exception in any callback is the
\* exception of the whole call.
TransformAuthors(authors) ==
    LET kept == SelectSeq(authors, Truthy)
        out == [i \in 1..Len(kept) |-> TransformAuthor(kept[i])]
    IN  IF \E i \in 1..Len(kept) : out[i].t = "throw" THEN Thrown
        ELSE [t |-> "array", a |-> [i \in 1..Len(kept) |-> out[i].o]]

\* ------------------------------------------------------ allFileMapFiles
\* The extracted package: a root directory (base path "") holding the
\* sub-directory "d"; Files are the file names a directory may hold.
DirD == <<"d">>

Dirs == {<<>>, DirD}

FileAJ == <<"a", ".", "j">>

FileBC == <<"b", ".", "c">>

Files == {FileAJ, FileBC}

Patterns == {<<"*">>, <<"*", ".", "j">>, <<"b", ".", "*">>}

\* Directory entries in the order glob's sorted result lists them.
NameOrder == <<FileAJ, FileBC, DirD>>

\* The entries of directory dir: its files and, for the root, the directory d.
Entries(tree, dir) ==
    IF dir \in DOMAIN tree
    THEN tree[dir] \cup (IF dir = <<>> THEN {DirD} ELSE {})
    ELSE {}

\* minimatch on one path segment: "*" matches any run of characters, every
\* other character matches itself.
RECURSIVE GlobMatch(_, _)
GlobMatch(p, f) ==
    IF p = <<>> THEN f = <<>>
    ELSE IF Head(p) = "*"
         THEN GlobMatch(Tail(p), f) \/ (f # <<>> /\ GlobMatch(p, Tail(f)))
         ELSE f # <<>> /\ Head(f) = Head(p) /\ GlobMatch(Tail(p), Tail(f))

\* glob(pattern, { cwd: join(path, basePath), nodir: true }): the sorted names
\* of the regular files of cwd that match, or an exception.
Glob(tree, throwing, pattern, basePath) ==
    IF pattern \in throwing THEN [t |-> "throw"]
    ELSE [t |-> "ok",
          files |-> SelectSeq(NameOrder,
                        LAMBDA n : /\ n \in Entries(tree, basePath)
                                   /\ n \notin Dirs
                                   /\ GlobMatch(pattern, n))]

\* Mutant: files.unshift(...) puts each pattern's matches first.
PushFront(files, matched) == matched \o files

\* Mutant: only paths not yet in the list are added.
PushNew(files, matched) ==
    files \o SelectSeq(matched, LAMBDA f : \A i \in 1..Len(files) : files[i] # f)

\* files.push(...glob(...))
PushAll(files, matched) == files \o matched

\* Mutant: the catch empties the list collected so far.
PushOrReset(files, r) ==
    IF r.t = "throw" THEN <<>> ELSE PushAll(files, r.files)

\* try { files.push(...glob(..)) } catch (_) { }
PushOrSwallow(files, r) ==
    IF r.t = "throw" THEN files ELSE PushAll(files, r.files)

\* for (const file of map.files) ...
RECURSIVE MatchPatterns(_, _, _, _, _)
MatchPatterns(tree, throwing, basePath, pats, files) ==
    IF pats = <<>> THEN files
    ELSE MatchPatterns(tree, throwing, basePath, Tail(pats),
             PushOrSwallow(files, Glob(tree, throwing, Head(pats), basePath)))

\* for (const map of fileMap) ...
RECURSIVE MatchEntries(_, _, _, _)
MatchEntries(tree, throwing, maps, files) ==
    IF maps = <<>> THEN files
    ELSE MatchEntries(tree, throwing, Tail(maps),
             MatchPatterns(tree, throwing, Head(maps).basePath,
                           Head(maps).files, files))

AllFileMapFiles(tree, throwing, maps) == MatchEntries(tree, throwing, maps, <<>>)

\* ------------------------------------------------- objects and documents
Arr(a) == [t |-> "array", a |-> a]

\* a || b
Or(a, b) == IF Truthy(a) THEN a ELSE b

\* An object whose key order matters (cdnjsData) is the sequence of its
\* [k, v] members in insertion order.
HasKey(o, k) == \E i \in 1..Len(o) : o[i].k = k

Get(o, k) ==
    IF HasKey(o, k) THEN o[CHOOSE i \in 1..Len(o) : o[i].k = k].v ELSE Undefined

\* o[k] = v : an existing key keeps its place, a new one goes last.
Set(o, k, v) ==
    IF HasKey(o, k)
    THEN [i \in 1..Len(o) |-> IF o[i].k = k THEN [k |-> k, v |-> v] ELSE o[i]]
    ELSE Append(o, [k |-> k, v |-> v])

\* delete o[k]
Del(o, k) == SelectSeq(o, LAMBDA m : m.k # k)

\* JSON.stringify(o, null, 2): the members in key order; a member whose value
\* is undefined is left out.
Stringify(o) ==
    LET kept == SelectSeq(o, LAMBDA m : m.v.t # "undefined")
    IN  [i \in 1..Len(kept) |->
            IF kept[i].v.t = "promise"
            THEN [k |-> kept[i].k, v |-> [t |-> "object", o |-> <<>>]]
            ELSE kept[i]]

\* A JSON document read from the registry or a manifest is a function from
\* its keys to values; doc.key of a missing key is undefined.
DocGet(doc, k) == IF k \in DOMAIN doc THEN doc[k] ELSE Undefined

\* { ...a, ...b }
Spread(a, b) ==
    [k \in DOMAIN a \cup DOMAIN b |-> IF k \in DOMAIN b THEN b[k] ELSE a[k]]

NoKeys == [k \in {} |-> Undefined]

\* string.trim()
RECURSIVE TrimLeft(_)
TrimLeft(s) == IF s # <<>> /\ Head(s) = " " THEN TrimLeft(Tail(s)) ELSE s

RECURSIVE TrimRight(_)
TrimRight(s) ==
    IF s # <<>> /\ s[Len(s)] = " " THEN TrimRight(SubSeq(s, 1, Len(s) - 1)) ELSE s

Trim(s) == TrimRight(TrimLeft(s))

\* ------------------------------------------------------------ the session
VARIABLES
    file,            \* the entry script run: "index" is src/index.js, "p1", "p2"
                     \* and "p3" the three scripts of src/unnamed/part_000
    rawName,         \* process.argv[2]; <<>> when the argument is missing
    pc,              \* where the single thread of control is waiting
    reply,           \* the user's latest reply to a prompt
    lastOut,         \* the latest console output
    updateMethod,    \* 0 until chosen, 1 for npm, 2 for GitHub
    npmName, jsonData, jsonVersionData,
    repo, repoTags, repoData,
    tempDir,         \* tarPath on disk: "absent", "partial" (no top directory) or "present"
    downloads,       \* the archive URLs download() was called with
    jsonFile,        \* github(): the manifest that was loaded, undefined otherwise
    caught,          \* the error the latest step caught, and whether it was reported
    defaultPrompt,   \* the default-file prompt: "none", "pending" or "answered"
    tree, throwing,  \* the extracted files, and the patterns glob raises on
    cdnjsData, fileMap, basePath, patterns,
    returned,        \* what the acquisition variant returned: "pending", "undefined" or "record"
    resolves, prFile, prBody, printed,
    prHead,          \* the head branch createPullRequest was called with
    announced,       \* the path in the "Create new file on ..." line
    authorsIn, authorsOut,          \* transformAuthors run on its own
    mapIn, matcherRuns, filesOut, filesAgain   \* allFileMapFiles run on its own

sessionVars ==
    <<file, rawName, pc, reply, lastOut, updateMethod, npmName, jsonData, jsonVersionData,
      repo, repoTags, repoData, tempDir, downloads, tree, throwing, cdnjsData,
      fileMap,
      basePath, patterns, returned, resolves, prFile, prBody, printed, caught,
      defaultPrompt, jsonFile, prHead, announced>>

pureVars == <<authorsIn, authorsOut, mapIn, matcherRuns, filesOut, filesAgain>>

vars == <<sessionVars, pureVars>>

Out(m) == [msg |-> m]

\* What a step caught: nothing, or an error that the catch block reported
\* to the user or not.
NoError == [err |-> "none"]

Caught(kind, shown) == [err |-> kind, shown |-> shown]

NoText == [t |-> "none"]

NoDoc == [k \in {} |-> Undefined]

Null == [t |-> "null"]

Doc(d) == [t |-> "document", d |-> d]

\* ---- what the user and the collaborators may answer
LibName == <<"L">>

LongName == <<"L", "L">>

PkgName == <<"p">>

Latest == <<"1">>

ChoiceReplies == {<<"1">>, <<" ", "2">>, <<"3">>}

NameReplies == {<<>>, PkgName, <<" ">>}

SelfDir == <<".">>

BasePathReplies == {<<>>, DirD, SelfDir}

PatternReplies == {<<>>, <<"*">>, <<"*", ".", "j">>}

DefaultReplies == {<<>>, FileAJ}

ResolvesReplies == {<<>>, <<"#", "7">>}

ExploreReplies == {<<>>, DirD, FileAJ, <<"x">>}

GlobExploreReplies == {<<>>, <<"d", " ", "*">>, <<"d">>}

ErrorDoc == [error |-> Str(<<"n", "o">>)]

Tarball == Str(<<"t">>)

VerFull == [description |-> Str(<<"V">>), dist |-> Doc([tarball |-> Tarball])]

VerBare == [dist |-> Doc([tarball |-> Tarball])]

PkgBare == [name |-> Str(PkgName), latest |-> Str(Latest)]

PkgFull ==
    [name |-> Str(PkgName), latest |-> Str(Latest),
     description |-> Str(<<"P">>),
     author |-> Str(<<"A", " ", "<", "e", ">">>),
     keywords |-> Arr(<<Str(<<"k">>)>>)]

\* The registry's answer to GET /<name>: an error document, or the package
\* document; src/index.js reads the latest version out of its versions map,
\* where it may be missing.
PackageReplies ==
    {ErrorDoc} \cup
    {Spread(pkg, [version |-> v]) :
        pkg \in {PkgBare, PkgFull}, v \in {Undefined, Doc(VerFull), Doc(VerBare)}}

\* The registry's answer to GET /<name>/<version> (part_000 scripts).
VersionReplies == {ErrorDoc, VerFull, VerBare}

ParsedRepos ==
    {[source |-> "github.com", owner |-> <<"o">>, name |-> <<"r">>],
     [source |-> "gitlab.com", owner |-> <<"g">>, name |-> <<"r">>],
     [source |-> "github.com", owner |-> <<>>, name |-> <<"r">>]}

Tag(n) == [name |-> <<"v", n>>, tarball_url |-> <<"u", n>>]

\* listTags' data: missing, empty, or the tags, most recent first.
TagReplies == {Undefined, Arr(<<>>), Arr(<<Tag("2"), Tag("1")>>), Arr(<<Tag("1")>>)}

RepoReplies ==
    {NoDoc,
     [description |-> Str(<<"R">>), homepage |-> Str(<<"h">>)],
     [description |-> Null, homepage |-> Null]}

TopicReplies == {NoDoc, [names |-> Arr(<<Str(<<"k">>)>>)]}

ManifestReads ==
    {Thrown, Doc(NoDoc),
     Doc([description |-> Str(<<"M">>), author |-> Obj([name |-> <<"N">>])]),
     Doc([description |-> Str(<<>>), license |-> Str(<<"L">>)])}

SessionTrees ==
    {[d \in Dirs |-> IF d = DirD THEN {FileAJ, FileBC} ELSE {FileAJ}],
     [d \in Dirs |-> {}]}

SessionThrowing == {{}, {<<"*">>}}

PureIdle ==
    /\ authorsIn = <<>> /\ authorsOut = [t |-> "pending"]
    /\ mapIn = <<>> /\ matcherRuns = 0 /\ filesOut = <<>> /\ filesAgain = <<>>

SessionStart ==
    /\ pc = "main"
    /\ reply = <<>>
    /\ lastOut = Out("none")
    /\ updateMethod = 0
    /\ npmName = <<>>
    /\ jsonData = NoDoc
    /\ jsonVersionData = Undefined
    /\ repo = [owner |-> <<>>, name |-> <<>>]
    /\ repoTags = [t |-> "pending"]
    /\ repoData = NoDoc
    /\ tempDir = "absent"
    /\ downloads = <<>>
    /\ cdnjsData = <<>>
    /\ fileMap = <<>>
    /\ basePath = <<>>
    /\ patterns = <<>>
    /\ returned = "pending"
    /\ resolves = <<>>
    /\ prFile = NoText
    /\ prBody = NoText
    /\ printed = NoText
    /\ caught = NoError
    /\ defaultPrompt = "none"
    /\ jsonFile = Undefined
    /\ prHead = NoText
    /\ announced = NoText

Init ==
    /\ file \in {"index", "p1", "p2", "p3"}
    /\ rawName \in {<<>>, LibName, LongName}
    /\ tree \in SessionTrees
    /\ throwing \in SessionThrowing
    /\ SessionStart
    /\ PureIdle

\* ---- main, up to the choice of the acquisition variant
\* Number(choice.toString().trim()); 0 stands for every other number and NaN.
ToNumber(s) ==
    CASE Trim(s) = <<"1">> -> 1
      [] Trim(s) = <<"2">> -> 2
      [] OTHER -> 0

\* Mutant: the usage message is printed and main goes on.
UsageIgnored ==
    /\ lastOut' = Out("usage")
    /\ pc' = IF file \in {"index", "p2"} THEN "updateChoice" ELSE "npm_name"

\* if (!rawName) { console.error('Usage: ...'); return; }
Usage ==
    /\ lastOut' = Out("usage")
    /\ pc' = "exit"

Main ==
    /\ pc = "main"
    /\ IF file = "p1"
       THEN /\ npmName' = rawName
            /\ pc' = "npm_fetch"
            /\ UNCHANGED <<lastOut, cdnjsData>>
       ELSE IF rawName = <<>>
            THEN /\ Usage
                 /\ UNCHANGED <<npmName, cdnjsData>>
            ELSE /\ pc' = IF file \in {"index", "p2"} THEN "updateChoice"
                          ELSE "npm_name"
                 /\ cdnjsData' = IF file \in {"index", "p2"} THEN cdnjsData
                                 ELSE Set(<<>>, "name", Str(rawName))
                 /\ UNCHANGED <<lastOut, npmName>>
    /\ caught' = NoError
    /\ UNCHANGED <<defaultPrompt, file, rawName, reply, updateMethod, jsonData, jsonVersionData,
                   repo, repoTags, repoData, tempDir, downloads, tree, throwing, fileMap,
                   basePath, patterns, returned, resolves, prFile, prBody, printed,
                   jsonFile, prHead, announced, pureVars>>

UpdateChoice ==
    /\ pc = "updateChoice"
    /\ \E r \in ChoiceReplies :
        /\ reply' = r
        /\ IF ToNumber(r) \in {1, 2}
           THEN /\ updateMethod' = ToNumber(r)
                /\ cdnjsData' = Set(<<>>, "name", Str(rawName))
                /\ pc' = IF ToNumber(r) = 1 THEN "npm_name" ELSE "gh_repo"
                /\ UNCHANGED lastOut
           ELSE /\ lastOut' = Out("choiceError")
                /\ UNCHANGED <<updateMethod, cdnjsData, pc>>
    /\ caught' = NoError
    /\ UNCHANGED <<defaultPrompt, file, rawName, npmName, jsonData, jsonVersionData, repo,
                   repoTags, repoData, tempDir, downloads, tree, throwing, fileMap, basePath,
                   patterns, returned, resolves, prFile, prBody, printed, jsonFile,
                   prHead, announced, pureVars>>

\* ---- the registry variant
\* cdnjsData.description = src.description || ''; ... (src/index.js stores no
\* author here, the part_000 scripts do)
StoreBasicInfo(data, src, withAuthor) ==
    LET d1 == Set(data, "description", Or(DocGet(src, "description"), Str(<<>>)))
        d2 == Set(d1, "keywords", Or(DocGet(src, "keywords"), Arr(<<>>)))
        d3 == IF withAuthor
              THEN Set(d2, "author", Or(DocGet(src, "author"), Str(<<>>)))
              ELSE d2
        d4 == Set(d3, "license", Or(DocGet(src, "license"), Str(<<>>)))
        d5 == Set(d4, "homepage", Or(DocGet(src, "homepage"), Str(<<>>)))
    IN  Set(d5, "repository", Or(DocGet(src, "repository"), Obj(NoKeys)))

\* { ...jsonVersionData, ...jsonData }; spreading undefined adds nothing.
MergeVersion(ver, pkg) == Spread(IF ver.t = "document" THEN ver.d ELSE NoDoc, pkg)

\* [full.author, ...(Array.isArray(full.authors) ? full.authors : [full.authors])]
NpmAuthorsArg(full) ==
    <<DocGet(full, "author")>> \o
    (IF DocGet(full, "authors").t = "array"
     THEN DocGet(full, "authors").a
     ELSE <<DocGet(full, "authors")>>)

\* jsonVersionData.dist.tarball: a TypeError when the version document or its
\* dist is missing.
TarballUrl(ver) ==
    IF ver.t # "document" THEN Thrown
    ELSE IF DocGet(ver.d, "dist").t # "document" THEN Thrown
         ELSE DocGet(DocGet(ver.d, "dist").d, "tarball")

\* download({ url, dir: tarPath }) is called, or evaluating its argument throws.
CallDownload(url) ==
    IF url.t = "throw"
    THEN /\ pc' = "crash"
         /\ UNCHANGED downloads
    ELSE /\ pc' = "npm_download"
         /\ downloads' = Append(downloads, url)

NpmAskName ==
    /\ pc = "npm_name"
    /\ \E r \in NameReplies :
        /\ reply' = r
        /\ npmName' = IF Trim(r) # <<>> THEN Trim(r) ELSE Get(cdnjsData, "name").s
    /\ pc' = "npm_fetch"
    /\ caught' = NoError
    /\ UNCHANGED <<defaultPrompt, file, rawName, lastOut, updateMethod, jsonData, jsonVersionData,
                   repo, repoTags, repoData, tempDir, downloads, tree, throwing, cdnjsData,
                   fileMap, basePath, patterns, returned, resolves, prFile, prBody,
                   printed, jsonFile, prHead, announced, pureVars>>

\* Mutant: the error is reported but npm() does not return.
RegistryErrorIgnored ==
    /\ lastOut' = Out("registryError")
    /\ UNCHANGED returned
    /\ pc' = "npm_download"

\* Mutant: npm() returns nothing and main goes on to its final steps.
RegistryErrorThenResolves ==
    /\ lastOut' = Out("registryError")
    /\ returned' = "undefined"
    /\ pc' = "askResolves"

\* if (jsonData.error) { console.error(...); return; }
RegistryError ==
    /\ lastOut' = Out("registryError")
    /\ returned' = "undefined"
    /\ pc' = "exit"

\* src/index.js, npm(): from the package fetch to the call of download.
NpmFetchIndex(doc) ==
    LET ver == DocGet(doc, "version")
        full == MergeVersion(ver, doc)
        data == StoreBasicInfo(cdnjsData, full, FALSE)
        authors == TransformAuthors(NpmAuthorsArg(full))
    IN  /\ jsonVersionData' = ver
        /\ lastOut' = Out("located")
        /\ UNCHANGED returned
        /\ IF authors.t = "throw"
           THEN /\ cdnjsData' = data
                /\ pc' = "crash"
                /\ UNCHANGED downloads
           ELSE /\ cdnjsData' = Set(data, "authors", authors)
                /\ CallDownload(TarballUrl(ver))

\* part_000 second script, npm(): the package document's fields and author are
\* stored, the latest version is read out of the versions map and download is
\* called.
NpmFetchP2(doc) ==
    LET ver == DocGet(doc, "version")
    IN  /\ jsonVersionData' = ver
        /\ cdnjsData' = StoreBasicInfo(cdnjsData, doc, TRUE)
        /\ lastOut' = Out("located")
        /\ UNCHANGED returned
        /\ CallDownload(TarballUrl(ver))

\* part_000 first and third scripts, main(): the package fetch; the version
\* is fetched next.
NpmFetchLegacy(doc) ==
    /\ cdnjsData' = StoreBasicInfo(
                       IF file = "p1" THEN Set(<<>>, "name", DocGet(doc, "name"))
                       ELSE cdnjsData,
                       doc, TRUE)
    /\ pc' = "npm_fetch_version"
    /\ UNCHANGED <<jsonVersionData, lastOut, returned, downloads>>

NpmFetch ==
    /\ pc = "npm_fetch"
    /\ \E doc \in IF file \in {"index", "p2"} THEN PackageReplies
                  ELSE {ErrorDoc, PkgBare, PkgFull} :
        /\ jsonData' = doc
        /\ IF Truthy(DocGet(doc, "error"))
           THEN /\ RegistryError
                /\ UNCHANGED <<jsonVersionData, cdnjsData, downloads>>
           ELSE CASE file = "index" -> NpmFetchIndex(doc)
                  [] file = "p2" -> NpmFetchP2(doc)
                  [] OTHER -> NpmFetchLegacy(doc)
    /\ caught' = NoError
    /\ UNCHANGED <<defaultPrompt, file, rawName, reply, updateMethod, npmName, repo, repoTags, repoData,
                   tempDir, tree, throwing, fileMap, basePath, patterns, resolves,
                   prFile, prBody, printed, jsonFile, prHead, announced, pureVars>>

NpmFetchVersion ==
    /\ pc = "npm_fetch_version"
    /\ \E doc \in VersionReplies :
        /\ jsonVersionData' = Doc(doc)
        /\ IF Truthy(DocGet(doc, "error"))
           THEN /\ RegistryError
                /\ UNCHANGED downloads
           ELSE /\ lastOut' = Out("located")
                /\ UNCHANGED returned
                /\ IF file = "p1"
                   THEN pc' = "p1_name" /\ UNCHANGED downloads
                   ELSE CallDownload(TarballUrl(Doc(doc)))
    /\ caught' = NoError
    /\ UNCHANGED <<defaultPrompt, file, rawName, reply, updateMethod, npmName, jsonData, repo,
                   repoTags, repoData, tempDir, tree, throwing, cdnjsData, fileMap, basePath,
                   patterns, resolves, prFile, prBody, printed, jsonFile,
                   prHead, announced, pureVars>>

\* part_000 first script: "Name to use for library", then the download.
P1AskName ==
    /\ pc = "p1_name"
    /\ \E r \in NameReplies :
        /\ reply' = r
        /\ cdnjsData' = Set(cdnjsData, "name",
                            IF Trim(r) # <<>> THEN Str(Trim(r))
                            ELSE DocGet(jsonData, "name"))
    /\ CallDownload(TarballUrl(jsonVersionData))
    /\ caught' = NoError
    /\ UNCHANGED <<defaultPrompt, file, rawName, lastOut, updateMethod, npmName, jsonData,
                   jsonVersionData, repo, repoTags, repoData, tempDir, tree, throwing, fileMap,
                   basePath, patterns, returned, resolves, prFile, prBody, printed,
                   jsonFile, prHead, announced, pureVars>>

DownloadOutcomes == {"ok", "failClean", "failPartial"}

DirAfter(outcome) ==
    CASE outcome = "ok" -> "present"
      [] outcome = "failPartial" -> "partial"
      [] OTHER -> "absent"

\* await download(...): src/index.js catches and logs a failure in npm();
\* the part_000 scripts do not catch it.
NpmDownload ==
    /\ pc = "npm_download"
    /\ \E outcome \in DownloadOutcomes :
        /\ tempDir' = DirAfter(outcome)
        /\ IF file = "index"
           THEN /\ pc' = "first_dir"
                /\ lastOut' = IF outcome = "ok" THEN lastOut ELSE Out("downloadError")
                /\ caught' = IF outcome = "ok" THEN NoError
                             ELSE Caught("download", TRUE)
           ELSE /\ caught' = NoError
                /\ IF outcome = "ok"
                   THEN pc' = "explore" /\ lastOut' = Out("downloaded")
                   ELSE pc' = "crash" /\ UNCHANGED lastOut
    /\ UNCHANGED <<defaultPrompt, file, rawName, reply, updateMethod, npmName, jsonData,
                   jsonVersionData, repo, repoTags, repoData, downloads, tree, throwing,
                   cdnjsData, fileMap, basePath, patterns, returned, resolves,
                   prFile, prBody, printed, jsonFile, prHead, announced, pureVars>>

\* join(tarPath, await getFirstDirectory(tarPath)): readdir fails on a missing
\* directory, and join throws on the undefined name of a directory that was
\* not extracted.
FirstDir ==
    /\ pc = "first_dir"
    /\ IF tempDir = "present"
       THEN IF updateMethod = 1
            THEN pc' = "explore" /\ lastOut' = Out("downloaded")
            ELSE pc' = "gh_package_json" /\ lastOut' = Out("downloaded")
       ELSE pc' = "crash" /\ UNCHANGED lastOut
    /\ caught' = NoError
    /\ UNCHANGED <<defaultPrompt, file, rawName, reply, updateMethod, npmName, jsonData,
                   jsonVersionData, repo, repoTags, repoData, tempDir, downloads, tree,
                   throwing, cdnjsData, fileMap, basePath, patterns, returned,
                   resolves, prFile, prBody, printed, jsonFile, prHead, announced, pureVars>>

\* ---- the interactive explorer
\* explore(path): one prompt; a file is printed (src/index.js only), a
\* directory listed, any error reported; a blank line ends the loop.
ExploreOutput(r) ==
    IF r \in DOMAIN tree THEN Out("listing")
    ELSE IF r \in tree[<<>>] /\ file = "index" THEN Out("contents")
         ELSE Out("exploreError")

\* Mutant: the error of a failed listing is not caught.
ListPathUncaught(r) ==
    IF ExploreOutput(r).msg = "exploreError"
    THEN pc' = "crash" /\ caught' = NoError /\ UNCHANGED lastOut
    ELSE lastOut' = ExploreOutput(r) /\ caught' = NoError /\ UNCHANGED pc

\* try { list or print the path } catch (e) { console.error(e.message) }, then
\* explore(path) again.
ListPath(r) ==
    /\ lastOut' = ExploreOutput(r)
    /\ caught' = IF ExploreOutput(r).msg = "exploreError"
                 THEN Caught("explore", TRUE) ELSE NoError
    /\ UNCHANGED pc

Explore ==
    /\ pc = "explore"
    /\ \E r \in ExploreReplies :
        /\ reply' = r
        /\ IF r = <<>>
           THEN pc' = "globExplore" /\ caught' = NoError /\ UNCHANGED lastOut
           ELSE ListPath(r)
    /\ UNCHANGED <<defaultPrompt, file, rawName, updateMethod, npmName, jsonData, jsonVersionData,
                   repo, repoTags, repoData, tempDir, downloads, tree, throwing, cdnjsData,
                   fileMap, basePath, patterns, returned, resolves, prFile, prBody,
                   printed, jsonFile, prHead, announced, pureVars>>

\* The places of the character c in s.
Places(s, c) == {i \in 1..Len(s) : s[i] = c}

\* globInput.split(' ', 2): the first two of the space-separated parts.
SplitTwo(s) ==
    LET sp == Places(s, " ")
    IN  IF sp = {} THEN <<s>>
        ELSE LET i == Min(sp)
                 later == {j \in sp : j > i}
                 j == IF later = {} THEN Len(s) + 1 ELSE Min(later)
             IN  <<SubSeq(s, 1, i - 1), SubSeq(s, i + 1, j - 1)>>

\* glob(undefined, ...) throws; so does a pattern glob raises on.
GlobExploreOutput(r) ==
    LET parts == SplitTwo(r)
    IN  IF Len(parts) < 2 THEN Out("globError")
        ELSE LET g == Glob(tree, throwing, parts[2], parts[1])
             IN  IF g.t = "throw" THEN Out("globError")
                 ELSE [msg |-> "files", files |-> g.files]

GlobExplore ==
    /\ pc = "globExplore"
    /\ \E r \in GlobExploreReplies :
        /\ reply' = r
        /\ IF r = <<>>
           THEN /\ pc' = "askBasePath"
                /\ fileMap' = <<>>
                /\ lastOut' = Out("fileMapHeader")
                /\ caught' = NoError
           ELSE /\ lastOut' = GlobExploreOutput(r)
                /\ caught' = IF GlobExploreOutput(r).msg = "globError"
                             THEN Caught("globExplore", TRUE) ELSE NoError
                /\ UNCHANGED <<pc, fileMap>>
    /\ UNCHANGED <<defaultPrompt, file, rawName, updateMethod, npmName, jsonData, jsonVersionData,
                   repo, repoTags, repoData, tempDir, downloads, tree, throwing, cdnjsData,
                   basePath, patterns, returned, resolves, prFile, prBody, printed,
                   jsonFile, prHead, announced, pureVars>>

\* ---- the file-map builder
\* resolve(basePath) === resolve(__dirname) ? '' : basePath, the session being
\* run from the script's directory: "" and "." resolve to it.
NormalizeBasePath(bp) == IF bp \in {<<>>, SelfDir} THEN <<>> ELSE bp

FileMapValue(maps) == [t |-> "fileMap", maps |-> maps]

SourceNpm == Str(<<"n", "p", "m">>)

SourceGit == Str(<<"g", "i", "t">>)

GitUrl == Str(<<"git://github.com/">> \o repo.owner \o <<"/">> \o repo.name \o <<".git">>)

\* What follows exploreAndGlob's return up to the default-file prompt: the
\* auto-update configuration is stored and the matched files are listed.
StoreFileMap(data, maps) ==
    IF file = "index" \/ (file = "p2" /\ updateMethod = 2)
    THEN Set(data, "autoupdate",
             [t |-> "autoupdate",
              source |-> IF updateMethod = 1 THEN SourceNpm ELSE SourceGit,
              target |-> IF updateMethod = 1 THEN DocGet(jsonData, "name") ELSE GitUrl,
              fileMap |-> maps])
    ELSE Set(Set(data, "npmName", DocGet(jsonData, "name")),
             "npmFileMap", FileMapValue(maps))

RECURSIVE PatternCount(_)
PatternCount(maps) ==
    IF maps = <<>> THEN 0 ELSE Len(Head(maps).files) + PatternCount(Tail(maps))

\* The base paths and patterns the builder holds: the model lets the user give
\* a further non-empty reply only below MaxReplies of them.
BuilderSize ==
    Len(fileMap) + PatternCount(fileMap)
        + (IF pc = "askPattern" THEN 1 + Len(patterns) ELSE 0)

\* An empty base path with no entry yet: the message, and the prompt again.
RejectEmptyBasePath ==
    /\ lastOut' = Out("fileMapRequired")
    /\ caught' = NoError
    /\ UNCHANGED <<pc, basePath, patterns, cdnjsData, defaultPrompt>>

\* The first part_000 script has no else: after the message it goes on to the
\* pattern loop with the empty base path.
RejectEmptyBasePathP1 ==
    /\ lastOut' = Out("fileMapRequired")
    /\ basePath' = <<>>
    /\ patterns' = <<>>
    /\ pc' = "askPattern"
    /\ caught' = NoError
    /\ UNCHANGED <<cdnjsData, defaultPrompt>>

\* A pattern of the file map on which glob raises: allFileMapFiles catches the
\* error and reports nothing.
PatternError(maps) ==
    IF \E i \in 1..Len(maps) : \E j \in 1..Len(maps[i].files) :
            Glob(tree, throwing, maps[i].files[j], maps[i].basePath).t = "throw"
    THEN Caught("pattern", FALSE)
    ELSE NoError

\* chooseDefault(path, fileMap, version) up to its prompt: the files the file
\* map matches are printed and the default file is asked for.
CallChooseDefault ==
    /\ lastOut' = [msg |-> "files", files |-> AllFileMapFiles(tree, throwing, fileMap)]
    /\ caught' = PatternError(fileMap)
    /\ defaultPrompt' = "pending"

\* The promise an async function returns before it has settled.
Promise == [t |-> "promise"]

\* part_000 second script: const defaultFile = chooseDefault(...) without await;
\* the promise is truthy, so it is stored as the filename and npm()/github()
\* go on to fs.rmdir while the prompt waits for its reply.
StoreUnawaited(data) == Set(data, "filename", Promise)

AskBasePath ==
    /\ pc = "askBasePath"
    /\ \E r \in BasePathReplies :
        /\ r # <<>> => BuilderSize + 2 <= MaxReplies
        /\ reply' = r
        /\ IF r = <<>>
           THEN IF fileMap = <<>>
                THEN IF file = "p1" THEN RejectEmptyBasePathP1 ELSE RejectEmptyBasePath
                ELSE /\ CallChooseDefault
                     /\ IF file = "p2"
                        THEN /\ cdnjsData' = StoreUnawaited(StoreFileMap(cdnjsData, fileMap))
                             /\ pc' = "cleanup"
                        ELSE /\ cdnjsData' = StoreFileMap(cdnjsData, fileMap)
                             /\ pc' = "chooseDefault"
                     /\ UNCHANGED <<basePath, patterns>>
           ELSE /\ basePath' = r
                /\ patterns' = <<>>
                /\ pc' = "askPattern"
                /\ caught' = NoError
                /\ UNCHANGED <<lastOut, cdnjsData, defaultPrompt>>
    /\ UNCHANGED <<file, rawName, updateMethod, npmName, jsonData, jsonVersionData,
                   repo, repoTags, repoData, tempDir, downloads, tree, throwing, fileMap,
                   returned, resolves, prFile, prBody, printed, jsonFile,
                   prHead, announced, pureVars>>

\* An empty pattern with no pattern yet: the message, and the prompt again.
RejectEmptyPattern ==
    /\ lastOut' = Out("patternRequired")
    /\ UNCHANGED <<pc, patterns, fileMap>>

\* The first part_000 script has no else: after the message it stores the
\* empty reply as a pattern.
RejectEmptyPatternP1 ==
    /\ lastOut' = Out("patternRequired")
    /\ patterns' = Append(patterns, <<>>)
    /\ UNCHANGED <<pc, fileMap>>

AskPattern ==
    /\ pc = "askPattern"
    /\ \E r \in PatternReplies :
        /\ r # <<>> => BuilderSize < MaxReplies
        /\ reply' = r
        /\ IF r = <<>>
           THEN IF patterns = <<>>
                THEN IF file = "p1" THEN RejectEmptyPatternP1 ELSE RejectEmptyPattern
                ELSE /\ fileMap' = Append(fileMap,
                                      [basePath |-> NormalizeBasePath(basePath),
                                       files |-> patterns])
                     /\ pc' = "askBasePath"
                     /\ UNCHANGED <<lastOut, patterns>>
           ELSE /\ patterns' = Append(patterns, r)
                /\ UNCHANGED <<pc, lastOut, fileMap>>
    /\ caught' = NoError
    /\ UNCHANGED <<defaultPrompt, file, rawName, updateMethod, npmName, jsonData, jsonVersionData,
                   repo, repoTags, repoData, tempDir, downloads, tree, throwing, cdnjsData,
                   basePath, returned, resolves, prFile, prBody, printed, jsonFile,
                   prHead, announced, pureVars>>

\* ---- the default file, the cleanup and the publisher
ToLower(c) == IF c = "L" THEN "l" ELSE c

\* Mutant: the whole library name is lower-cased in the file's path.
PackagePathLowered(name) ==
    <<"packages/">> \o [i \in 1..Len(SubSeq(name, 1, 1)) |-> ToLower(name[i])]
        \o <<"/">> \o [i \in 1..Len(name) |-> ToLower(name[i])] \o <<".json">>

\* `packages/${name.slice(0, 1).toLowerCase()}/${name}.json`
PackagePath(name) ==
    <<"packages/">> \o [i \in 1..Len(SubSeq(name, 1, 1)) |-> ToLower(name[i])]
        \o <<"/">> \o name \o <<".json">>

\* config.branchBase, the configured branch prefix
BranchBase == <<"add-">>

\* head: `${config.branchBase}${data.name}`
HeadBranch(name) == BranchBase \o name

\* The path in the "Create new file on ..." line: main's copy of createPR's
\* template in src/index.js, ajax/libs/<name>/package.json in the older scripts.
AnnouncedPath(name) ==
    IF file = "index"
    THEN <<"packages/">> \o [i \in 1..Len(SubSeq(name, 1, 1)) |-> ToLower(name[i])]
             \o <<"/">> \o name \o <<".json">>
    ELSE <<"ajax/libs/">> \o name \o <<"/package.json">>

\* `${JSON.stringify(data, null, 2)}\n`, the content of the pull request's file
FileContent(data) == [json |-> Stringify(data), eol |-> TRUE]

\* console.log(text): the text and a line end
ConsoleLog(json) == [json |-> json, eol |-> TRUE]

\* Mutant: the fallback prints the record without its default file.
FallbackPrintWithoutFilename(data) == ConsoleLog(Stringify(Del(data, "filename")))

\* The fallback's console.log(chalk.green(`${JSON.stringify(cdnjsData, null, 2)}`)).
FallbackPrint(data) == ConsoleLog(Stringify(data))

ChooseDefault ==
    /\ pc = "chooseDefault"
    /\ defaultPrompt' = "answered"
    /\ \E r \in DefaultReplies :
        /\ reply' = r
        /\ LET data == IF r # <<>> THEN Set(cdnjsData, "filename", Str(r))
                       ELSE cdnjsData
           IN  /\ cdnjsData' = data
               /\ IF file = "index"
                  THEN /\ pc' = "cleanup"
                       /\ UNCHANGED <<lastOut, printed, announced>>
                  ELSE /\ printed' = FallbackPrint(data)
                       /\ announced' = AnnouncedPath(Get(data, "name").s)
                       /\ lastOut' = Out("createFile")
                       /\ pc' = "exit"
    /\ caught' = NoError
    /\ UNCHANGED <<file, rawName, updateMethod, npmName, jsonData, jsonVersionData,
                   repo, repoTags, repoData, tempDir, downloads, tree, throwing, fileMap,
                   basePath, patterns, returned, resolves, prFile, prBody, jsonFile, prHead,
                   pureVars>>

\* Mutant: the directory is left in place.
RmdirSkipped(dir) == dir

\* fs.rmdir(tarPath, { recursive: true })
Rmdir(dir) == "absent"

\* await fs.rmdir(...); return cdnjsData; and main goes on to the resolves
\* prompt. A failing rmdir rejects, and nothing is returned.
Cleanup ==
    /\ pc = "cleanup"
    /\ \E ok \in BOOLEAN :
        IF ok
        THEN /\ tempDir' = Rmdir(tempDir)
             /\ returned' = "record"
             /\ IF file = "p2"
                THEN /\ printed' = FallbackPrint(cdnjsData)
                     /\ announced' = AnnouncedPath(Get(cdnjsData, "name").s)
                     /\ lastOut' = Out("createFile")
                     /\ pc' = "exit"
                ELSE /\ pc' = "askResolves"
                     /\ UNCHANGED <<lastOut, printed, announced>>
        ELSE /\ pc' = "crash"
             /\ UNCHANGED <<tempDir, returned, lastOut, printed, announced>>
    /\ caught' = NoError
    /\ UNCHANGED <<defaultPrompt, file, rawName, reply, updateMethod, npmName, jsonData,
                   jsonVersionData, repo, repoTags, repoData, downloads, tree, throwing,
                   cdnjsData, fileMap, basePath, patterns, resolves, prFile, prBody,
                   jsonFile, prHead, pureVars>>

\* part_000 second script: the reply to the default-file prompt arrives while
\* or after npm()/github() and main() run on; nothing reads it.
DefaultReplyP2 ==
    /\ file = "p2"
    /\ defaultPrompt = "pending"
    /\ pc \in {"cleanup", "exit"}
    /\ \E r \in DefaultReplies : reply' = r
    /\ defaultPrompt' = "answered"
    /\ caught' = NoError
    /\ UNCHANGED <<file, rawName, pc, lastOut, updateMethod, npmName, jsonData,
                   jsonVersionData, repo, repoTags, repoData, tempDir, downloads, tree,
                   throwing, cdnjsData, fileMap, basePath, patterns, returned,
                   resolves, prFile, prBody, printed, jsonFile, prHead, announced, pureVars>>

\* resolves ? `Resolves ${resolves}.` : ''
ResolvesLine(r) == IF r # <<>> THEN <<"Resolves ">> \o r \o <<".">> ELSE <<>>

\* createPR(data, body) up to the call of octokit.createPullRequest.
AskResolves ==
    /\ pc = "askResolves"
    /\ \E r \in ResolvesReplies :
        /\ reply' = r
        /\ resolves' = r
        /\ prFile' = [path |-> PackagePath(Get(cdnjsData, "name").s),
                      content |-> FileContent(cdnjsData)]
        /\ prBody' = [t |-> "body", extra |-> ResolvesLine(r)]
        /\ prHead' = HeadBranch(Get(cdnjsData, "name").s)
    /\ lastOut' = Out("attemptingPR")
    /\ pc' = "createPR"
    /\ caught' = NoError
    /\ UNCHANGED <<defaultPrompt, file, rawName, updateMethod, npmName, jsonData, jsonVersionData,
                   repo, repoTags, repoData, tempDir, downloads, tree, throwing, cdnjsData,
                   fileMap, basePath, patterns, returned, printed, jsonFile, announced, pureVars>>

\* The pull request is created, or the remote call fails and main prints the
\* record instead.
CreatePR ==
    /\ pc = "createPR"
    /\ \E ok \in BOOLEAN :
        IF ok
        THEN /\ lastOut' = Out("createdPR")
             /\ caught' = NoError
             /\ UNCHANGED <<printed, announced>>
        ELSE /\ lastOut' = Out("createFile")
             /\ caught' = Caught("createPR", TRUE)
             /\ printed' = FallbackPrint(cdnjsData)
             /\ announced' = AnnouncedPath(Get(cdnjsData, "name").s)
    /\ pc' = "exit"
    /\ UNCHANGED <<defaultPrompt, file, rawName, reply, updateMethod, npmName, jsonData,
                   jsonVersionData, repo, repoTags, repoData, tempDir, downloads, tree,
                   throwing, cdnjsData, fileMap, basePath, patterns, returned,
                   resolves, prFile, prBody, jsonFile, prHead, pureVars>>

\* ---- the source-host variant
\* githubRepo(): the parsed reply is accepted, rejected with a message, or
\* gitUrlParse throws and the loop asks again.
GithubRepo ==
    /\ pc = "gh_repo"
    /\ \E parsed \in ParsedRepos \cup {Thrown} :
        IF parsed = Thrown
        THEN caught' = Caught("repoUrl", FALSE) /\ UNCHANGED <<repo, pc, lastOut>>
        ELSE /\ caught' = NoError
             /\ IF parsed.source = "github.com" /\ parsed.owner # <<>> /\ parsed.name # <<>>
                THEN /\ repo' = [owner |-> parsed.owner, name |-> parsed.name]
                     /\ pc' = "gh_tags"
                     /\ UNCHANGED lastOut
                ELSE /\ lastOut' = Out("repoError")
                     /\ UNCHANGED <<repo, pc>>
    /\ UNCHANGED <<defaultPrompt, file, rawName, reply, updateMethod, npmName, jsonData,
                   jsonVersionData, tempDir, repoTags, repoData, downloads, tree, throwing,
                   cdnjsData, fileMap, basePath, patterns, returned, resolves,
                   prFile, prBody, printed, jsonFile, prHead, announced, pureVars>>

\* Mutant: only a missing list is rejected, an empty one is not.
NoTagsMissingOnly(data) == data.t # "array"

\* !repoTags.data || !repoTags.data.length
NoTags(data) == data.t # "array" \/ Len(data.a) = 0

\* repoTags.data[0]; reading its name when the list is empty is a TypeError.
FirstTag(data) ==
    IF data.t = "array" /\ Len(data.a) > 0
    THEN [t |-> "tag", name |-> data.a[1].name, tarball_url |-> data.a[1].tarball_url]
    ELSE Thrown

HomeUrl == Str(<<"https://github.com/">> \o repo.owner \o <<"/">> \o repo.name)

\* part_000 second script, github(): the repository-level defaults are
\* constants.
StoreRepoInfoP2(data) ==
    LET d1 == Set(data, "description", Str(<<>>))
        d2 == Set(d1, "keywords", Arr(<<>>))
        d3 == Set(d2, "author", Str(repo.owner))
        d4 == Set(d3, "license", Str(<<>>))
        d5 == Set(d4, "homepage", HomeUrl)
    IN  Set(d5, "repository",
            [t |-> "repository", type |-> SourceGit, url |-> GitUrl])

GhListTags ==
    /\ pc = "gh_tags"
    /\ \E data \in TagReplies :
        /\ repoTags' = data
        /\ IF NoTags(data)
           THEN /\ lastOut' = Out("noTags")
                /\ returned' = "undefined"
                /\ pc' = "exit"
                /\ UNCHANGED <<cdnjsData, downloads>>
           ELSE IF file = "p2"
                THEN /\ cdnjsData' = StoreRepoInfoP2(cdnjsData)
                     /\ lastOut' = Out("located")
                     /\ downloads' = Append(downloads, Str(FirstTag(data).tarball_url))
                     /\ pc' = "gh_download"
                     /\ UNCHANGED returned
                ELSE /\ pc' = "gh_repo_get"
                     /\ UNCHANGED <<lastOut, returned, cdnjsData, downloads>>
    /\ caught' = NoError
    /\ UNCHANGED <<defaultPrompt, file, rawName, reply, updateMethod, npmName, jsonData,
                   jsonVersionData, repo, repoData, tempDir, tree, throwing,
                   fileMap, basePath, patterns, resolves, prFile, prBody,
                   printed, jsonFile, prHead, announced, pureVars>>

GhRepoGet ==
    /\ pc = "gh_repo_get"
    /\ \E data \in RepoReplies : repoData' = data
    /\ pc' = "gh_topics"
    /\ caught' = NoError
    /\ UNCHANGED <<defaultPrompt, file, rawName, reply, lastOut, updateMethod, npmName, jsonData,
                   jsonVersionData, repo, repoTags, tempDir, downloads, tree,
                   throwing, cdnjsData, fileMap, basePath, patterns, returned,
                   resolves, prFile, prBody, printed, jsonFile, prHead, announced, pureVars>>

\* x && x.data && x.data.key
AndGet(data, k) == DocGet(data, k)

\* repoData.data.license && repoData.data.license.spdx_id
LicenseId(data) ==
    IF Truthy(DocGet(data, "license"))
    THEN DocGet(DocGet(data, "license").d, "spdx_id")
    ELSE DocGet(data, "license")

StoreRepoInfo(data, rd, topics) ==
    LET d1 == Set(data, "description", AndGet(rd, "description"))
        d2 == Set(d1, "keywords", AndGet(topics, "names"))
        d3 == Set(d2, "author", Str(repo.owner))
        d4 == Set(d3, "license", LicenseId(rd))
        d5 == Set(d4, "homepage", Or(AndGet(rd, "homepage"), HomeUrl))
    IN  Set(d5, "repository",
            [t |-> "repository", type |-> SourceGit, url |-> GitUrl])

\* The topics arrive, the repository's defaults are stored, and download is
\* called for the first tag of the list.
GhTopics ==
    /\ pc = "gh_topics"
    /\ \E topics \in TopicReplies :
        cdnjsData' = StoreRepoInfo(cdnjsData, repoData, topics)
    /\ IF FirstTag(repoTags).t = "throw"
       THEN /\ pc' = "crash"
            /\ UNCHANGED <<lastOut, downloads>>
       ELSE /\ lastOut' = Out("located")
            /\ downloads' = Append(downloads, Str(FirstTag(repoTags).tarball_url))
            /\ pc' = "gh_download"
    /\ caught' = NoError
    /\ UNCHANGED <<defaultPrompt, file, rawName, reply, updateMethod, npmName, jsonData,
                   jsonVersionData, repo, repoTags, repoData, tempDir, tree, throwing,
                   fileMap, basePath, patterns, returned, resolves, prFile, prBody,
                   printed, jsonFile, prHead, announced, pureVars>>

\* await download(...) in github(): a failure is not caught.
GhDownload ==
    /\ pc = "gh_download"
    /\ \E outcome \in DownloadOutcomes :
        /\ tempDir' = DirAfter(outcome)
        /\ pc' = IF outcome = "ok" THEN "first_dir" ELSE "crash"
    /\ caught' = NoError
    /\ UNCHANGED <<defaultPrompt, file, rawName, reply, lastOut, updateMethod, npmName, jsonData,
                   jsonVersionData, repo, repoTags, repoData, downloads, tree, throwing,
                   cdnjsData, fileMap, basePath, patterns, returned, resolves,
                   prFile, prBody, printed, jsonFile, prHead, announced, pureVars>>

\* The opposite precedence: cdnjsData.x = cdnjsData.x || jsonFile.x.
ManifestDefaultsFirst(data, manifest) ==
    LET over(d, k) == Set(d, k, Or(Get(d, k), DocGet(manifest, k)))
    IN  over(over(over(over(over(data, "description"), "keywords"), "author"),
                  "license"), "homepage")

\* if (jsonFile) { cdnjsData.description = jsonFile.description || cdnjsData.description; ... }
ManifestOverrides(data, manifest) ==
    LET over(d, k) == Set(d, k, Or(DocGet(manifest, k), Get(d, k)))
    IN  over(over(over(over(over(data, "description"), "keywords"), "author"),
                  "license"), "homepage")

\* From the manifest (or none) to the explorer: the overrides, then
\* transformAuthors([cdnjsData.author, ...((manifest && manifest.authors) || [])])
\* and delete cdnjsData.author.
AfterManifest(manifest) ==
    LET man == IF manifest.t = "document" THEN manifest.d ELSE NoDoc
        data == IF manifest.t = "document" THEN ManifestOverrides(cdnjsData, man)
                ELSE cdnjsData
        more == IF Truthy(DocGet(man, "authors")) THEN DocGet(man, "authors").a
                ELSE <<>>
        authors == TransformAuthors(<<Get(data, "author")>> \o more)
    IN  IF file = "p2"
        THEN cdnjsData' = data /\ pc' = "explore"
        ELSE IF authors.t = "throw"
             THEN cdnjsData' = data /\ pc' = "crash"
             ELSE /\ cdnjsData' = Del(Set(data, "authors", authors), "author")
                  /\ pc' = "explore"

GhReadPackageJson ==
    /\ pc = "gh_package_json"
    /\ \E read \in ManifestReads :
        IF read = Thrown
        THEN /\ pc' = "gh_bower_json"
             /\ caught' = Caught("manifest", FALSE)
             /\ UNCHANGED <<cdnjsData, jsonFile>>
        ELSE /\ jsonFile' = read
             /\ AfterManifest(read)
             /\ caught' = NoError
    /\ UNCHANGED <<defaultPrompt, file, rawName, reply, lastOut, updateMethod, npmName, jsonData,
                   jsonVersionData, repo, repoTags, repoData, tempDir, downloads, tree,
                   throwing, fileMap, basePath, patterns, returned, resolves,
                   prFile, prBody, printed, prHead, announced, pureVars>>

GhReadBowerJson ==
    /\ pc = "gh_bower_json"
    /\ \E read \in ManifestReads :
        /\ jsonFile' = IF read = Thrown THEN Undefined ELSE read
        /\ AfterManifest(IF read = Thrown THEN Undefined ELSE read)
        /\ caught' = IF read = Thrown THEN Caught("manifest", FALSE) ELSE NoError
    /\ UNCHANGED <<defaultPrompt, file, rawName, reply, lastOut, updateMethod, npmName, jsonData,
                   jsonVersionData, repo, repoTags, repoData, tempDir, downloads, tree,
                   throwing, fileMap, basePath, patterns, returned, resolves,
                   prFile, prBody, printed, prHead, announced, pureVars>>

Next ==
    \/ Main \/ UpdateChoice
    \/ NpmAskName \/ NpmFetch \/ NpmFetchVersion \/ P1AskName \/ NpmDownload
    \/ FirstDir
    \/ GithubRepo \/ GhListTags \/ GhRepoGet \/ GhTopics \/ GhDownload
    \/ GhReadPackageJson \/ GhReadBowerJson
    \/ Explore \/ GlobExplore \/ AskBasePath \/ AskPattern
    \/ ChooseDefault \/ Cleanup \/ DefaultReplyP2 \/ AskResolves \/ CreatePR

Spec == Init /\ [][Next]_vars

\* ------------------------------------------- transformAuthors on its own
Absent == <<"absent">>

AuthorAlphabet == {"J", " ", "<", ">", "(", ")", NL}

\* Every string of at most MaxJunkLen characters.
JunkStrings == UNION {[1..n -> AuthorAlphabet] : n \in 0..MaxJunkLen}

SegEmail == <<" ", "<", "e", ">">>

SegUrl == <<" ", "(", "u", ")">>

\* The names, and the texts inside the brackets, of the strings of the
\* documented shape.
ShapeNames == {<<"J">>, <<"J", " ", "D">>}

ShapeEmails == {Absent, <<"e">>, <<"e", "@", "x">>}

ShapeUrls == {Absent, <<"u">>, <<"u", ":", "x">>}

\* name [<email>] [(url)], or with the two segments the other way round.
Shaped(n, e, u, emailFirst) ==
    LET se == IF e = Absent THEN <<>> ELSE <<" ", "<">> \o e \o <<">">>
        su == IF u = Absent THEN <<>> ELSE <<" ", "(">> \o u \o <<")">>
    IN  n \o (IF emailFirst THEN se \o su ELSE su \o se)

ShapedStrings ==
    {<<"J">> \o a \o b : a, b \in {<<>>, SegEmail, SegUrl}}
    \cup {Shaped(n, e, u, f) :
            n \in ShapeNames, e \in ShapeEmails, u \in ShapeUrls, f \in BOOLEAN}

ObjOf(n, e, u, h) ==
    LET all == [name |-> n, email |-> e, url |-> u, homepage |-> h]
    IN  Obj([k \in {k \in DOMAIN all : all[k] # Absent} |-> all[k]])

AuthorObjects ==
    {ObjOf(n, e, u, h) :
        n \in {Absent, <<>>, <<"J">>, <<"J">> \o SegEmail},
        e \in {Absent, <<>>, <<"m">>},
        u \in {Absent, <<"w">>},
        h \in {Absent, <<"h">>}}

AuthorInputs ==
    {Undefined} \cup {Str(s) : s \in JunkStrings \cup ShapedStrings} \cup AuthorObjects

\* The entries put around the one under test.
AuthorPadding ==
    UNION {[1..n -> {Undefined, Str(<<"J">>)}] : n \in 0..(MaxAuthors - 1)}

AuthorLists ==
    {<<>>} \cup
    {pp[1] \o <<x>> \o pp[2] :
        x \in AuthorInputs,
        pp \in {q \in AuthorPadding \X AuthorPadding : Len(q[1]) + Len(q[2]) < MaxAuthors}}

SessionIdle ==
    /\ file = "index"
    /\ rawName = LibName
    /\ SessionStart

InitAuthors ==
    /\ SessionIdle
    /\ tree = [d \in Dirs |-> {}]
    /\ throwing = {}
    /\ mapIn = <<>> /\ matcherRuns = 0 /\ filesOut = <<>> /\ filesAgain = <<>>
    /\ authorsIn \in AuthorLists
    /\ authorsOut = [t |-> "pending"]

CallTransformAuthors ==
    /\ authorsOut.t = "pending"
    /\ authorsOut' = TransformAuthors(authorsIn)
    /\ UNCHANGED <<sessionVars, authorsIn, mapIn, matcherRuns, filesOut, filesAgain>>

NextAuthors == CallTransformAuthors

SpecAuthors == InitAuthors /\ [][NextAuthors]_vars

\* -------------------------------------------- allFileMapFiles on its own
\* The file maps whose entries hold n patterns in all.
RECURSIVE MapsOfSize(_)
MapsOfSize(n) ==
    IF n = 0 THEN {<<>>}
    ELSE UNION {
            {<<[basePath |-> b, files |-> f]>> \o rest :
                b \in Dirs, f \in [1..j -> Patterns], rest \in MapsOfSize(n - j)} :
            j \in 1..n}

FileMaps == UNION {MapsOfSize(n) : n \in 0..MaxGlobs}

MatcherTrees == [Dirs -> SUBSET Files]

MatcherThrowing == {{}, {<<"*">>}, {<<"*", ".", "j">>}, {<<"*">>, <<"b", ".", "*">>}}

InitMatcher ==
    /\ SessionIdle
    /\ tree \in MatcherTrees
    /\ throwing \in MatcherThrowing
    /\ mapIn \in FileMaps
    /\ matcherRuns = 0 /\ filesOut = <<>> /\ filesAgain = <<>>
    /\ authorsIn = <<>> /\ authorsOut = [t |-> "pending"]

\* allFileMapFiles(path, fileMap), called a first and a second time on the
\* unchanged tree.
CallAllFileMapFiles ==
    /\ matcherRuns < 2
    /\ matcherRuns' = matcherRuns + 1
    /\ IF matcherRuns = 0
       THEN /\ filesOut' = AllFileMapFiles(tree, throwing, mapIn)
            /\ UNCHANGED filesAgain
       ELSE /\ filesAgain' = AllFileMapFiles(tree, throwing, mapIn)
            /\ UNCHANGED filesOut
    /\ UNCHANGED <<sessionVars, authorsIn, authorsOut, mapIn>>

NextMatcher == CallAllFileMapFiles

SpecMatcher == InitMatcher /\ [][NextMatcher]_vars

\* ------------------------------------------------------------- the claims
\* C1: in the builder's outer loop an empty base path ends the loop only when
\* an entry exists; with none it is rejected with the message and the base
\* path is asked again, with no pattern prompt and no entry appended; so the
\* file map the builder hands on holds at least one entry.
C1_EmptyBasePathNeedsAnEntry ==
    /\ [][(pc = "askBasePath" /\ reply' = <<>>) =>
            IF fileMap = <<>>
            THEN /\ pc' = "askBasePath"
                 /\ lastOut'.msg = "fileMapRequired"
                 /\ fileMap' = fileMap
            ELSE pc' = "chooseDefault"]_vars
    /\ [](pc \in {"chooseDefault", "cleanup", "askResolves", "createPR"}
            => Len(fileMap) >= 1)

\* C2: an empty reply to the pattern prompt is never stored: with no pattern
\* yet it is rejected with the message and asked again, with one it ends the
\* inner loop; every appended entry's patterns are the non-empty replies given
\* for its base path, in order, and there is at least one.
C2_EmptyPatternNeverStored ==
    /\ [][(pc = "askPattern" /\ reply' = <<>>) =>
            /\ patterns' = patterns
            /\ IF patterns = <<>>
               THEN pc' = "askPattern" /\ lastOut'.msg = "patternRequired"
                              /\ fileMap' = fileMap
               ELSE pc' = "askBasePath"
                    /\ fileMap' = Append(fileMap,
                                         [basePath |-> NormalizeBasePath(basePath),
                                          files |-> patterns])]_vars
    /\ [][(pc = "askPattern" /\ reply' # <<>>) =>
            patterns' = Append(patterns, reply') /\ pc' = pc]_vars
    /\ [](\A i \in 1..Len(fileMap) :
            /\ Len(fileMap[i].files) >= 1
            /\ \A j \in 1..Len(fileMap[i].files) : fileMap[i].files[j] # <<>>)

\* C3: once createPR has put the serialized record in the pull request's
\* file, a failure of the remote call does not abort the run, and what the
\* fallback prints is that same serialized document.
C3_FallbackPrintsSubmittedDocument ==
    prFile # NoText =>
        /\ pc \in {"createPR", "exit"}
        /\ pc = "exit" =>
              \/ lastOut.msg = "createdPR" /\ printed = NoText
              \/ lastOut.msg = "createFile" /\ printed = prFile.content

C3_Witness ==
    /\ pc = "exit"
    /\ prFile # NoText
    /\ lastOut.msg = "createFile"
    /\ HasKey(cdnjsData, "filename")

\* The registry's answer carries an error field.
IsError(doc) == Truthy(DocGet(doc, "error"))

\* C4: when the registry reports an error for the package-level fetch or for
\* the fetch of the latest version, the registry variant ends with no record,
\* no download has been attempted, no temporary directory exists, and neither
\* the explorer nor the file-map prompts are reached (the run is over).
C4_RegistryErrorAborts ==
    (IsError(jsonData) \/ (jsonVersionData.t = "document" /\ IsError(jsonVersionData.d)))
        => /\ pc = "exit"
           /\ returned = "undefined"
           /\ downloads = <<>>
           /\ tempDir = "absent"
           /\ fileMap = <<>>
           /\ printed = NoText

C4_Witness ==
    /\ pc = "exit"
    /\ ~IsError(jsonData)
    /\ jsonVersionData.t = "document" /\ IsError(jsonVersionData.d)

\* C5: with a missing or empty tag list the source-host variant returns no
\* record, and no download is attempted and no temporary directory created; a
\* download happens only with a non-empty list, for its first tag.
C5_NoTagsNoDownload ==
    updateMethod = 2 =>
        /\ (repoTags.t # "pending" /\ (repoTags.t # "array" \/ Len(repoTags.a) = 0))
              => /\ pc = "exit"
                 /\ returned = "undefined"
                 /\ downloads = <<>>
                 /\ tempDir = "absent"
        /\ downloads # <<>>
              => /\ repoTags.t = "array"
                 /\ Len(repoTags.a) >= 1
                 /\ downloads = <<Str(repoTags.a[1].tarball_url)>>
        /\ tempDir # "absent" => downloads # <<>>

C5_Witness ==
    /\ updateMethod = 2
    /\ repoTags = Arr(<<>>)
    /\ pc = "exit"

\* C6: in both variants a record is returned only after the temporary
\* directory has been removed.
C6_RecordOnlyAfterCleanup ==
    returned = "record" => tempDir = "absent"

C6_Witness ==
    /\ returned = "record"
    /\ downloads # <<>>
    /\ updateMethod = 2

\* The (base path, pattern) pairs of a file map in declaration order.
RECURSIVE Pairs(_)
Pairs(maps) ==
    IF maps = <<>> THEN <<>>
    ELSE [j \in 1..Len(Head(maps).files) |->
            [basePath |-> Head(maps).basePath, pattern |-> Head(maps).files[j]]]
         \o Pairs(Tail(maps))

\* The files of the tree a pair matches, in glob's order.
PairMatches(pair) ==
    SelectSeq(NameOrder,
              LAMBDA n : n \in Files /\ n \in Entries(tree, pair.basePath)
                         /\ GlobMatch(pair.pattern, n))

RECURSIVE Concat(_)
Concat(seqs) == IF seqs = <<>> THEN <<>> ELSE Head(seqs) \o Concat(Tail(seqs))

Fails(pair) == pair.pattern \in throwing

\* C7: a pattern whose resolution raises contributes nothing and stops
\* nothing: the result is what the other patterns contribute, in order, as if
\* the failing ones were not in the file map.
C7_FailingPatternContributesNothing ==
    matcherRuns >= 1 =>
        LET others == SelectSeq(Pairs(mapIn), LAMBDA pr : ~Fails(pr))
        IN  filesOut = Concat([n \in 1..Len(others) |-> PairMatches(others[n])])

C7_Witness ==
    /\ matcherRuns >= 1
    /\ LET prs == Pairs(mapIn)
       IN  \E i, j, k \in 1..Len(prs) :
            /\ i < j /\ j < k
            /\ Fails(prs[j])
            /\ ~Fails(prs[i]) /\ PairMatches(prs[i]) # <<>>
            /\ ~Fails(prs[k]) /\ PairMatches(prs[k]) # <<>>

\* What the n-th pair adds to the result.
Contribution(prs, n) == IF Fails(prs[n]) THEN <<>> ELSE PairMatches(prs[n])

RECURSIVE Offset(_, _)
Offset(prs, n) ==
    IF n = 1 THEN 0 ELSE Offset(prs, n - 1) + Len(Contribution(prs, n - 1))

\* C8: the result is the concatenation, in declaration order of entries and
\* of patterns within them, of each pattern's matches under its base path,
\* with no deduplication; a second run on the unchanged tree gives the same.
C8_ConcatenationInDeclarationOrder ==
    LET prs == Pairs(mapIn)
    IN  /\ matcherRuns >= 1 =>
            /\ Len(filesOut) = Offset(prs, Len(prs) + 1)
            /\ \A n \in 1..Len(prs) :
                 SubSeq(filesOut, Offset(prs, n) + 1, Offset(prs, n + 1))
                    = Contribution(prs, n)
        /\ matcherRuns = 2 => filesAgain = filesOut

C8_Witness ==
    /\ matcherRuns = 2
    /\ Len(mapIn) = 2
    /\ \E i, j \in 1..Len(filesOut) : i < j /\ filesOut[i] = filesOut[j]

Occurrences(s, x) == Cardinality({i \in 1..Len(s) : s[i] = x})

\* C9 as stated: the result is deduplicated, no path occurs twice.
C9_NoPathTwice ==
    matcherRuns >= 1 =>
        \A i, j \in 1..Len(filesOut) : i # j => filesOut[i] # filesOut[j]

\* C9 as amended: the result is the union of the matches without
\* deduplication: it holds matched paths only, and each path once for every
\* (entry, pattern) pair whose pattern matches it under the entry's base path.
C9_OncePerMatchingPattern ==
    matcherRuns >= 1 =>
        LET prs == Pairs(mapIn)
        IN  /\ \A i \in 1..Len(filesOut) : filesOut[i] \in Files
            /\ \A f \in Files :
                 Occurrences(filesOut, f) =
                    Cardinality({n \in 1..Len(prs) :
                                   /\ ~Fails(prs[n])
                                   /\ prs[n].basePath \in DOMAIN tree
                                   /\ f \in tree[prs[n].basePath]
                                   /\ GlobMatch(prs[n].pattern, f)})

C9_Witness ==
    /\ matcherRuns >= 1
    /\ \E f \in Files : Occurrences(filesOut, f) >= 2

\* C10: for every list of undefined, strings and objects with optional
\* name/email/url/homepage, transformAuthors returns, without an error, one
\* author per entry that is not undefined, in order, none with an empty
\* name, email or url.
C10_AuthorsTotalAndClean ==
    authorsOut.t # "pending" =>
        /\ authorsOut.t = "array"
        /\ Len(authorsOut.a) =
              Len(SelectSeq(authorsIn, LAMBDA a : a.t # "undefined"))
        /\ \A i \in 1..Len(authorsOut.a) :
              /\ DOMAIN authorsOut.a[i] \subseteq {"name", "email", "url"}
              /\ \A k \in DOMAIN authorsOut.a[i] : authorsOut.a[i][k] # <<>>

\* The author object with the given name, email and url, absent ones left out.
AuthorOf(n, e, u) ==
    LET all == [name |-> n, email |-> e, url |-> u]
    IN  [k \in {k \in DOMAIN all : all[k] # Absent} |-> all[k]]

\* C11: a string author name [<email>] [(url)], the two segments optional and
\* in either order, is parsed into the name before the segments, the email
\* inside the angle brackets and the url inside the parentheses.
C11_StringAuthorParsed ==
    \A n \in ShapeNames, e \in ShapeEmails, u \in ShapeUrls, f \in BOOLEAN :
        (authorsIn = <<Str(Shaped(n, e, u, f))>> /\ authorsOut.t # "pending")
            => authorsOut = [t |-> "array", a |-> <<AuthorOf(n, e, u)>>]

C11_Witness ==
    /\ authorsIn = <<Str(Shaped(<<"J", " ", "D">>, <<"e", "@", "x">>, <<"u", ":", "x">>, FALSE))>>
    /\ authorsOut.t = "array"
    /\ authorsOut.a[1] = [name |-> <<"J", " ", "D">>, email |-> <<"e", "@", "x">>,
                          url |-> <<"u", ":", "x">>]

\* C12: without the library-name argument main prints the usage message and
\* ends: that one step changes nothing but the console output, and nothing
\* follows it (no prompt, no remote call, no record printed).
C12_MissingArgumentOnlyUsage ==
    /\ [][(pc = "main" /\ rawName = <<>> /\ file \in {"index", "p2", "p3"}) =>
            /\ lastOut'.msg = "usage"
            /\ pc' = "exit"
            /\ UNCHANGED <<file, rawName, reply, updateMethod, npmName, jsonData,
                           jsonVersionData, repo, repoTags, repoData, tempDir,
                           downloads, cdnjsData, fileMap, basePath, patterns,
                           returned, resolves, prFile, prBody, printed,
                           defaultPrompt, prHead, announced>>]_vars
    /\ [][lastOut.msg = "usage" => FALSE]_vars

C12_Witness ==
    /\ file = "index"
    /\ rawName = <<>>
    /\ pc = "exit"
    /\ lastOut.msg = "usage"

\* The keys of a serialized document, in the order they are written.
KeysOf(json) == [i \in 1..Len(json) |-> json[i].k]

StableOrder ==
    <<"name", "description", "keywords", "authors", "license", "homepage",
      "repository", "autoupdate", "filename">>

Position(k) == CHOOSE i \in 1..Len(StableOrder) : StableOrder[i] = k

InStableOrder(keys) ==
    /\ \A i \in 1..Len(keys) : \E j \in 1..Len(StableOrder) : StableOrder[j] = keys[i]
    /\ \A i, j \in 1..Len(keys) : i < j => Position(keys[i]) < Position(keys[j])

\* C13: the record of src/index.js is serialized, for the pull request and
\* for the printed fallback, in both variants, with its fields in the order
\* name, description, keywords, authors, license, homepage, repository,
\* autoupdate, filename, and with no other field.
C13_StableFieldOrder ==
    file = "index" =>
        /\ prFile # NoText => InStableOrder(KeysOf(prFile.content.json))
        /\ printed # NoText => InStableOrder(KeysOf(printed.json))

\* The value a field has when the version's document is preferred to the
\* package's, before the default for a missing one is applied.
VersionFirst(ver, pkg, f) ==
    IF ver.t = "document" /\ f \in DOMAIN ver.d THEN ver.d[f] ELSE DocGet(pkg, f)

\* C14: in the registry variant of src/index.js a field defined by the
\* package document and by the latest version's document takes the version's
\* value in the record; the package's value is used only when the version
\* does not define the field.
C14_VersionOverPackage ==
    (file = "index" /\ updateMethod = 1 /\ HasKey(cdnjsData, "repository")) =>
        /\ \A f \in {"description", "license", "homepage"} :
              Get(cdnjsData, f) = Or(VersionFirst(jsonVersionData, jsonData, f), Str(<<>>))
        /\ Get(cdnjsData, "keywords")
              = Or(VersionFirst(jsonVersionData, jsonData, "keywords"), Arr(<<>>))
        /\ Get(cdnjsData, "repository")
              = Or(VersionFirst(jsonVersionData, jsonData, "repository"), Obj(NoKeys))

IsString(v) == v.t = "string"

IsStringList(v) == v.t = "array" /\ \A i \in 1..Len(v.a) : IsString(v.a[i])

\* C15: in every record a variant returns, description, license and homepage
\* are strings and keywords is a sequence of strings; none is null or
\* undefined.
C15_StringsNeverNull ==
    returned = "record" =>
        /\ \A f \in {"description", "license", "homepage"} : IsString(Get(cdnjsData, f))
        /\ IsStringList(Get(cdnjsData, "keywords"))

\* C16: no error is silently dropped: when a step catches an error, either a
\* message is shown to the user or the run is aborted.
C16_NoErrorSilentlyDropped ==
    caught.err # "none" => caught.shown \/ pc \in {"exit", "crash"}

\* C17: each explorer loop ends when and only when the reply is empty; after
\* a non-empty reply the listing or the caught error is shown and the same
\* prompt is asked again; no error ends the loop or leaves it uncaught.
C17_ExplorerLoops ==
    /\ [][pc = "explore" =>
            IF reply' = <<>>
            THEN pc' = "globExplore"
            ELSE /\ pc' = "explore"
                 /\ lastOut'.msg \in {"listing", "contents", "exploreError"}
                 /\ lastOut'.msg = "exploreError"
                       <=> caught' = [err |-> "explore", shown |-> TRUE]]_vars
    /\ [][pc = "globExplore" =>
            IF reply' = <<>>
            THEN pc' = "askBasePath"
            ELSE /\ pc' = "globExplore"
                 /\ lastOut'.msg \in {"files", "globError"}
                 /\ lastOut'.msg = "globError"
                       <=> caught' = [err |-> "globExplore", shown |-> TRUE]]_vars

C17_Witness ==
    /\ pc = "globExplore"
    /\ reply # <<>>
    /\ lastOut.msg = "globError"
    /\ caught.err = "globExplore"

\* C18: the reply to the default-file prompt is received before the temporary
\* directory is removed and before the variant returns: while the prompt is
\* pending the session waits at it, and no cleanup, return or output happens.
C18_DefaultPromptAwaited ==
    /\ [](defaultPrompt = "pending" =>
            /\ pc = "chooseDefault"
            /\ tempDir = "present"
            /\ returned = "pending"
            /\ printed = NoText /\ prFile = NoText)
    /\ [][(defaultPrompt = "pending" /\ defaultPrompt' = "pending") =>
            (tempDir' = tempDir /\ returned' = returned /\ printed' = printed)]_vars

\* C19: the returned record has a filename if and only if the reply to the
\* default-file prompt was not empty, and the filename is that reply.
C19_FilenameIffReply ==
    (returned = "record" /\ pc \in (IF file = "p2" THEN {"exit"} ELSE {"askResolves"})) =>
        IF defaultPrompt = "answered" /\ reply # <<>>
        THEN Get(cdnjsData, "filename") = Str(reply)
        ELSE ~HasKey(cdnjsData, "filename")

\* The manifest the github variant ended up with, as a document (empty when
\* neither file could be read), the value a field takes under a rule for
\* "the manifest has one", and the step of reading one manifest file.
LoadedManifest(jf) == IF jf.t = "document" THEN jf.d ELSE NoDoc

Defines(man, k) == k \in DOMAIN man

HoldsValue(man, k) == Truthy(DocGet(man, k))

Has(rule, man, k) == IF rule = "defined" THEN Defines(man, k) ELSE HoldsValue(man, k)

ManifestStep(old, new, man, rule) ==
    LET val(k) == IF Has(rule, man, k) THEN man[k] ELSE Get(old, k)
        more == IF Truthy(DocGet(man, "authors")) THEN DocGet(man, "authors").a
                ELSE <<>>
    IN  /\ \A k \in {"description", "keywords", "license", "homepage"} :
              Get(new, k) = val(k)
        /\ IF file = "index" /\ pc' = "explore"
           THEN Get(new, "authors") = TransformAuthors(<<val("author")>> \o more)
           ELSE Get(new, "author") = val("author")

FallbackOrder(rule) ==
    /\ pc' = "gh_package_json" => pc = "first_dir"
    /\ pc' = "gh_bower_json" =>
          /\ pc = "gh_package_json"
          /\ caught' = Caught("manifest", FALSE)
          /\ cdnjsData' = cdnjsData /\ jsonFile' = Undefined
    /\ (pc = "gh_package_json" /\ pc' # "gh_bower_json") =>
          /\ pc' \in {"explore", "crash"}
          /\ jsonFile'.t = "document"
          /\ ManifestStep(cdnjsData, cdnjsData', jsonFile'.d, rule)
    /\ pc = "gh_bower_json" =>
          /\ pc' \in {"explore", "crash"}
          /\ ManifestStep(cdnjsData, cdnjsData', LoadedManifest(jsonFile'), rule)

\* C20: in the source-host variant package.json is tried first, bower.json is
\* read only when package.json could not be read or parsed, and when both fail
\* the repository-level defaults are kept; when a manifest was loaded, each of
\* description, keywords, author, license and homepage takes the manifest's
\* value where the manifest defines one and keeps the default otherwise.
C20_ManifestDefinedWins == [][FallbackOrder("defined")]_vars

\* C20, amended: the same fallback order, and each field takes the manifest's
\* value where that value is truthy (not missing, null or the empty string)
\* and keeps the repository-level default otherwise.
C20_ManifestFallbackOrder == [][FallbackOrder("truthy")]_vars

C20_Witness ==
    /\ pc = "explore"
    /\ file = "index"
    /\ jsonFile.t = "document"
    /\ Defines(jsonFile.d, "description") /\ ~HoldsValue(jsonFile.d, "description")
    /\ Get(cdnjsData, "description") = Str(<<"R">>)
    /\ Get(cdnjsData, "license") = Str(<<"L">>)

\* The owner/name pairs githubRepo may return: parsed from an input whose host
\* is github.com and whose owner and name are both non-empty.
ValidRepos ==
    {[owner |-> p.owner, name |-> p.name] :
        p \in {q \in ParsedRepos :
                  q.source = "github.com" /\ q.owner # <<>> /\ q.name # <<>>}}

\* C21: the repository-URL prompt loop returns only an owner/name pair parsed
\* from a github.com input with non-empty owner and name; every other input,
\* including one the URL parser fails on, is rejected with a message to the
\* user and the prompt is asked again, never returning or aborting.
C21_RepoLoopRejectsWithMessage ==
    [][pc = "gh_repo" =>
         \/ pc' = "gh_tags" /\ repo' \in ValidRepos
         \/ /\ pc' = "gh_repo" /\ repo' = repo /\ returned' = returned
            /\ lastOut' = Out("repoError")
            /\ caught'.err # "none" => caught'.shown]_vars

\* The fields main hands to createPR: those stored by npm() or github().
CompleteRecord(data) ==
    \A k \in {"name", "description", "keywords", "license", "homepage",
               "repository", "authors", "autoupdate"} : HasKey(data, k)

\* C22: when the selected variant returns no record (registry error or no
\* tags) the run ends without any further action: the resolves prompt is not
\* asked, no pull-request call is made and no record is printed; and the
\* pull-request attempt happens only after a variant has returned a complete
\* record with an autoupdate field and after the resolves prompt was answered.
C22_NoRecordNoFurtherAction ==
    /\ [](returned = "undefined" =>
            /\ pc = "exit"
            /\ lastOut \in {Out("registryError"), Out("noTags")}
            /\ resolves = <<>> /\ prFile = NoText /\ prBody = NoText
            /\ printed = NoText)
    /\ [][returned = "undefined" => FALSE]_vars
    /\ [][(prFile' # prFile \/ pc' = "createPR") =>
            /\ pc = "askResolves" /\ pc' = "createPR"
            /\ returned = "record" /\ returned' = "record"
            /\ CompleteRecord(cdnjsData) /\ cdnjsData' = cdnjsData
            /\ resolves' = reply']_vars
    /\ [](pc = "createPR" => prFile # NoText /\ lastOut = Out("attemptingPR"))

C22_Witness ==
    /\ returned = "undefined"
    /\ repoTags = Undefined
    /\ file = "index"
    /\ prFile = NoText /\ printed = NoText

\* C23: for every record the pull request adds exactly one file, at path
\* packages/<first character of the library name, lower-cased>/<library
\* name>.json, on a branch named the configured prefix followed by the library
\* name; the path announced by the fallback print after a failed submission is
\* that same path; and the body carries the 'Resolves <x>.' line if and only
\* if the reply to the resolves prompt was not empty.
C23_PullRequestShape ==
    prFile # NoText =>
        /\ Get(cdnjsData, "name") = Str(rawName)
        /\ prFile.path = <<"packages/", ToLower(rawName[1]), "/">> \o rawName \o <<".json">>
        /\ prFile.content = [json |-> Stringify(cdnjsData), eol |-> TRUE]
        /\ prHead = BranchBase \o rawName
        /\ (announced # NoText \/ lastOut.msg = "createFile") => announced = prFile.path
        /\ prBody.extra = (IF resolves = <<>> THEN <<>>
                           ELSE <<"Resolves ">> \o resolves \o <<".">>)

C23_Witness ==
    /\ pc = "exit"
    /\ rawName = LongName
    /\ caught = Caught("createPR", TRUE)
    /\ announced = <<"packages/", "l", "/", "L", "L", ".json">>
    /\ prHead = BranchBase \o LongName
    /\ resolves # <<>>
    /\ prBody.extra # <<>>

====
